---- MODULE Spec2Model ----
\* Badge generator (generate_qr_badges_final.py): CSV rows are loaded, validated,
\* filtered, sorted, paginated into label grids, rendered into cells and emitted
\* as a document plus a best-effort PDF.
\*
\* Text is a sequence of atoms.  An atom is a one-character string taken from a
\* field of the CSV, or a whole literal of the program ("Shirt Size: ").  The only
\* whitespace character of the alphabet is " ".
EXTENDS Integers, Sequences, FiniteSets, TLC

\* ---------------------------------------------------------------- bounds
\* Longest CSV (data rows) of the main specification.
MaxRows == 3
\* Longest CSV of the two-run sort specification.
MaxSortRows == 3
\* Largest record count handed to the paginator specification.
MaxIdx == 10

\* ------------------------------------------------------------------ text
\* str.lower() on one character of the alphabet.
Lower(c) ==
  CASE c = "A" -> "a"
    [] c = "B" -> "b"
    [] c = "C" -> "c"
    [] c = "D" -> "d"
    [] c = "E" -> "e"
    [] c = "G" -> "g"
    [] c = "J" -> "j"
    [] c = "L" -> "l"
    [] c = "M" -> "m"
    [] c = "S" -> "s"
    [] OTHER -> c

\* Code point of a character: Python compares strings by code point.
CodePoint(c) ==
  CASE c = " " -> 32
    [] c = "A" -> 65
    [] c = "B" -> 66
    [] c = "D" -> 68
    [] c = "J" -> 74
    [] c = "M" -> 77
    [] c = "a" -> 97
    [] c = "b" -> 98
    [] c = "d" -> 100
    [] c = "e" -> 101
    [] c = "j" -> 106
    [] c = "l" -> 108
    [] c = "m" -> 109
    [] c = "o" -> 111
    [] OTHER -> 120

LowerText(s) == [i \in 1..Len(s) |-> Lower(s[i])]

RECURSIVE LStripSet(_, _)
LStripSet(s, drop) ==
  IF s # <<>> /\ Head(s) \in drop THEN LStripSet(Tail(s), drop) ELSE s

RECURSIVE RStripSet(_, _)
RStripSet(s, drop) ==
  IF s # <<>> /\ s[Len(s)] \in drop
  THEN RStripSet(SubSeq(s, 1, Len(s) - 1), drop)
  ELSE s

\* str.strip(chars)
StripSet(s, drop) == RStripSet(LStripSet(s, drop), drop)

\* str.strip()
Strip(s) == StripSet(s, {" "})

\* a < b for Python strings: lexicographic by code point, a proper prefix first.
RECURSIVE TextLess(_, _)
TextLess(a, b) ==
  IF b = <<>> THEN FALSE
  ELSE IF a = <<>> THEN TRUE
  ELSE IF CodePoint(Head(a)) # CodePoint(Head(b))
       THEN CodePoint(Head(a)) < CodePoint(Head(b))
       ELSE TextLess(Tail(a), Tail(b))

\* ------------------------------------------------------------- columns
REQUIRED_CSV_COLUMNS ==
  << "Preferred", "Last", "FASET Total Guest Count",
     "Guest 1 Preferred Name", "Guest 1 Last Name", "Guest 1 Affiliations",
     "Guest 2 Preferred Name", "Guest 2 Last Name", "Guest 2 Affiliations" >>

RequiredSet == { REQUIRED_CSV_COLUMNS[i] : i \in 1..Len(REQUIRED_CSV_COLUMNS) }

\* Columns the renderers read with rec.get(col, '') and the loader does not require.
OptionalColumns ==
  { "FASET Shirt Size", "Code", "Major", "Home City", "Home State/Region",
    "Group Number", "Pronouns", "FASET Session Date" }

\* dict.get(col, dflt)
Get(rec, col, dflt) == IF col \in DOMAIN rec THEN rec[col] ELSE dflt

\* safe_str: every value of a loaded record is a string already (dtype=str, fillna('')).
safe_str(val) == val

\* --------------------------------------------------------------- safe_int
Digits == { "0", "1", "2", "3", "4", "5", "6", "7", "8", "9" }

DigitVal(c) ==
  CASE c = "0" -> 0 [] c = "1" -> 1 [] c = "2" -> 2 [] c = "3" -> 3 [] c = "4" -> 4
    [] c = "5" -> 5 [] c = "6" -> 6 [] c = "7" -> 7 [] c = "8" -> 8 [] OTHER -> 9

RECURSIVE DigitsVal(_)
DigitsVal(s) ==
  IF s = <<>> THEN 0
  ELSE 10 * DigitsVal(SubSeq(s, 1, Len(s) - 1)) + DigitVal(s[Len(s)])

\* int(str): surrounding whitespace is ignored, one optional sign, then digits;
\* anything else raises ValueError.
IntLiteral(s) ==
  LET t == Strip(s)
      signed == t # <<>> /\ Head(t) \in { "+", "-" }
      body == IF signed THEN Tail(t) ELSE t
      ok == body # <<>> /\ \A i \in 1..Len(body) : body[i] \in Digits
  IN [ ok |-> ok,
       val |-> IF ~ok THEN 0
               ELSE IF signed /\ Head(t) = "-" THEN 0 - DigitsVal(body)
               ELSE DigitsVal(body) ]

safe_int_defaults_to_one(val_str) == IF IntLiteral(val_str).ok THEN IntLiteral(val_str).val ELSE 1

safe_int(val_str) == IF IntLiteral(val_str).ok THEN IntLiteral(val_str).val ELSE 0

\* ------------------------------------------------------------ sort, filter
\* The sort key of all four badge operations (the value is not stripped).
SortKeyCaseSensitive(rec) ==
  << safe_str(Get(rec, "Last", <<>>)), safe_str(Get(rec, "Preferred", <<>>)) >>

SortKey(rec) ==
  << LowerText(safe_str(Get(rec, "Last", <<>>))),
     LowerText(safe_str(Get(rec, "Preferred", <<>>))) >>

\* Tuple comparison k1 < k2.
KeyLess(k1, k2) ==
  \/ TextLess(k1[1], k2[1])
  \/ k1[1] = k2[1] /\ TextLess(k1[2], k2[2])

\* A record of a loaded list is named by its position in the CSV (the identity of
\* the dict object); `rows` is the CSV's data rows.
\* x goes before the first element whose key is greater, hence after its equals.
RECURSIVE InsertStable(_, _, _)
InsertStable(rows, sorted, x) ==
  IF sorted = <<>> THEN << x >>
  ELSE IF KeyLess(SortKey(rows[x]), SortKey(rows[Head(sorted)]))
       THEN << x >> \o sorted
       ELSE << Head(sorted) >> \o InsertStable(rows, Tail(sorted), x)

\* The sort forgotten: the list stays in CSV order.
ListSortDiscarded(rows, order) == order

\* list.sort(key=...): ascending and stable.
RECURSIVE ListSort(_, _)
ListSort(rows, order) ==
  IF order = <<>> THEN <<>>
  ELSE InsertStable(rows,
         ListSort(rows, SubSeq(order, 1, Len(order) - 1)), order[Len(order)])

GuestCount(rec) == safe_int(safe_str(Get(rec, "FASET Total Guest Count", << "0" >>)))

AllRecords(rows) == [i \in 1..Len(rows) |-> i]

RECURSIVE KeepFrom(_, _, _)
KeepFrom(rows, i, threshold) ==
  IF i > Len(rows) THEN <<>>
  ELSE (IF GuestCount(rows[i]) >= threshold THEN << i >> ELSE <<>>)
       \o KeepFrom(rows, i + 1, threshold)

\* [r for r in records if safe_int(...) >= threshold]
GuestFilter(rows, threshold) == KeepFrom(rows, 1, threshold)

GuestThresholdOffByOne(op) == IF op = "guest1" THEN 0 ELSE 1

GuestThreshold(op) == IF op = "guest1" THEN 1 ELSE 2

\* The list a badge operation renders: load, (filter,) sort.
RenderList(op, rows) ==
  IF op \in { "guest1", "guest2" }
  THEN ListSort(rows, GuestFilter(rows, GuestThreshold(op)))
  ELSE ListSort(rows, AllRecords(rows))

\* -------------------------------------------------------------- paginator
\* (idx - 1) % per_page == 0: the record opens a new table.
StartsNewTable(idx, per_page) == (idx - 1) % per_page = 0

\* Quotient and remainder exchanged.
CellOfSwapped(idx, per_page, cols) ==
  [ r |-> ((idx - 1) % per_page) % cols,
    c |-> ((idx - 1) % per_page) \div cols ]

\* r, c = divmod((idx - 1) % per_page, cols)
CellOf(idx, per_page, cols) ==
  [ r |-> ((idx - 1) % per_page) \div cols,
    c |-> ((idx - 1) % per_page) % cols ]

\* rows = per_page // cols
TableRows(per_page, cols) == per_page \div cols

\* table.rows[r].cells[c] raises IndexError outside the table.
CellExists(idx, per_page, cols) ==
  /\ CellOf(idx, per_page, cols).r < TableRows(per_page, cols)
  /\ CellOf(idx, per_page, cols).c < cols

\* The columns whose cells are given their width when a table is added: every
\* column of the table (QR), table.columns[0] and table.columns[1] (name badges).
WidthColumns(op, cols) == IF op = "qr" THEN 0..(cols - 1) ELSE { 0, 1 }

\* table.columns[i] raises IndexError outside the table.
TableBuilt(op, cols) == \A i \in WidthColumns(op, cols) : i < cols

\* The iteration gets its cell: the table it may have to add is built and the
\* cell it addresses exists.
Placed(op, idx, per_page, cols) ==
  /\ StartsNewTable(idx, per_page) => TableBuilt(op, cols)
  /\ CellExists(idx, per_page, cols)

\* ---------------------------------------------------------- cell renderers
\* One paragraph of a cell.
Para(text, bold) == [ text |-> text, bold |-> bold, picture |-> FALSE ]
Picture == [ text |-> <<>>, bold |-> FALSE, picture |-> TRUE ]
BlankPara == Para(<<>>, FALSE)

Field(rec, col) == Strip(safe_str(Get(rec, col, <<>>)))

\* The paragraph added without looking at the text.
OptLineUnconditional(text) == << Para(text, FALSE) >>

\* if text: add_centered_paragraph(text, font_size=11)
OptLine(text) == IF text # <<>> THEN << Para(text, FALSE) >> ELSE <<>>

\* count_val / count_display of the QR badge.
CountDisplay(rec) ==
  LET count_val == Field(rec, "FASET Total Count")
  IN IF count_val # <<>> THEN count_val ELSE << "1" >>

QRNameText(rec) ==
  Strip(Field(rec, "Preferred") \o << " " >> \o Field(rec, "Last")
        \o << " ", "-", " " >> \o CountDisplay(rec))

\* Paragraphs of one QR cell; fetch is "none" (no URL), "ok", "fail".
QRCell(rec, fetch) ==
  << Para(QRNameText(rec), TRUE) >>
  \o (IF Field(rec, "FASET Shirt Size") # <<>>
      THEN << Para(<< "Shirt Size: " >> \o Field(rec, "FASET Shirt Size"), FALSE) >>
      ELSE <<>>)
  \o (IF Field(rec, "Code") = <<>> THEN <<>>
      ELSE IF fetch = "ok" THEN << Picture >>
      ELSE << Para(<< "QR download error" >>, FALSE) >>)

\* f"{a} {b}", added only if it is not blank.
NameLine(a, b) ==
  LET name_text == a \o << " " >> \o b
  IN IF Strip(name_text) # <<>> THEN << Para(name_text, TRUE) >> ELSE <<>>

CityStateLine(rec) ==
  LET home_city == Field(rec, "Home City")
      home_state == Field(rec, "Home State/Region")
  IN IF home_city # <<>> \/ home_state # <<>>
     THEN << Para(StripSet(home_city \o << ",", " " >> \o home_state, { ",", " " }), FALSE) >>
     ELSE <<>>

\* ' - '.join(filter(None, [group, pronouns])) with an en dash, written " -- " here.
GroupPronouns(rec) ==
  LET group == Field(rec, "Group Number")
      pronouns == Field(rec, "Pronouns")
  IN IF group # <<>> /\ pronouns # <<>> THEN group \o << " -- " >> \o pronouns
     ELSE group \o pronouns

LeadingBlanks == << BlankPara, BlankPara, BlankPara >>

StudentCell(rec) ==
  LeadingBlanks
  \o NameLine(Field(rec, "Preferred"), Field(rec, "Last"))
  \o OptLine(Field(rec, "Major"))
  \o CityStateLine(rec)
  \o OptLine(GroupPronouns(rec))
  \o OptLine(Field(rec, "FASET Session Date"))

GuestOfLine(rec) ==
  LET primary_preferred == Field(rec, "Preferred")
      primary_last == Field(rec, "Last")
  IN IF primary_preferred # <<>> \/ primary_last # <<>>
     THEN << Para(<< "Guest of: " >> \o primary_preferred \o << " " >> \o primary_last, FALSE) >>
     ELSE <<>>

GuestCell(rec, preferred_col, last_col, aff_col) ==
  LeadingBlanks
  \o NameLine(Field(rec, preferred_col), Field(rec, last_col))
  \o GuestOfLine(rec)
  \o OptLine(Field(rec, aff_col))
  \o CityStateLine(rec)
  \o OptLine(Field(rec, "FASET Session Date"))

CellParas(op, rec, fetch) ==
  CASE op = "qr" -> QRCell(rec, fetch)
    [] op = "student" -> StudentCell(rec)
    [] op = "guest1" ->
         GuestCell(rec, "Guest 1 Preferred Name", "Guest 1 Last Name", "Guest 1 Affiliations")
    [] OTHER ->
         GuestCell(rec, "Guest 2 Preferred Name", "Guest 2 Last Name", "Guest 2 Affiliations")

\* ------------------------------------------------------------------ inputs
\* Header of the sample CSV at the bottom of the script.
SampleHeader == RequiredSet \cup OptionalColumns

AllColumns == SampleHeader \cup { "FASET Total Count" }

Row(preferred, last, guests, total, shirt, code, major, city, state, group, pronouns,
    date, g1p, g1l, g1a, g2p, g2l, g2a) ==
  [ col \in AllColumns |->
      CASE col = "Preferred" -> preferred
        [] col = "Last" -> last
        [] col = "FASET Total Guest Count" -> guests
        [] col = "FASET Total Count" -> total
        [] col = "FASET Shirt Size" -> shirt
        [] col = "Code" -> code
        [] col = "Major" -> major
        [] col = "Home City" -> city
        [] col = "Home State/Region" -> state
        [] col = "Group Number" -> group
        [] col = "Pronouns" -> pronouns
        [] col = "FASET Session Date" -> date
        [] col = "Guest 1 Preferred Name" -> g1p
        [] col = "Guest 1 Last Name" -> g1l
        [] col = "Guest 1 Affiliations" -> g1a
        [] col = "Guest 2 Preferred Name" -> g2p
        [] col = "Guest 2 Last Name" -> g2l
        [] OTHER -> g2a ]

\* The attendees the CSVs of the model are made of.
RowPool ==
  << \* every field filled, three guests
     Row(<< "A", "l" >>, << "D", "o", "e" >>, << "3" >>, << "3" >>, << "M" >>, << "u" >>,
         << "C", "S" >>, << "A", "t", "l" >>, << "G", "A" >>, << "1" >>, << "h", "e" >>,
         << "8", "/", "1" >>, << "J", "o" >>, << "D", "o", "e" >>, << "M", "o", "m" >>,
         << "M", "o" >>, << "D", "o", "e" >>, << "D", "a", "d" >>),
     \* the same name in lower case, a guest count that is no number, every
     \* other field blank or whitespace
     Row(<< "a", "l" >>, << "d", "o", "e" >>, << "x" >>, <<>>, <<>>, <<>>,
         << " " >>, <<>>, <<>>, <<>>, <<>>,
         <<>>, <<>>, <<>>, <<>>,
         <<>>, <<>>, <<>>),
     \* one guest, a QR code, state without city, pronouns without group
     Row(<< "B", "o" >>, << "D", "o", "e" >>, << "1" >>, << " ", "2" >>, <<>>, << "v" >>,
         <<>>, <<>>, << "G", "A" >>, <<>>, << "s", "h", "e" >>,
         <<>>, << "J", "o" >>, <<>>, <<>>,
         <<>>, <<>>, <<>>),
     \* no name, no guest count, no QR code
     Row(<<>>, <<>>, <<>>, <<>>, << "L" >>, <<>>,
         <<>>, << "A", "t", "l" >>, <<>>, << "2" >>, <<>>,
         << " ", "8", "/", "2" >>, <<>>, << "B", "o" >>, << "D", "a", "d" >>,
         <<>>, <<>>, <<>>),
     \* the name of the first attendee again, guest count padded with whitespace
     Row(<< "A", "l" >>, << "D", "o", "e" >>, << " ", "2" >>, <<>>, <<>>, <<>>,
         << "M", "E" >>, <<>>, <<>>, <<>>, <<>>,
         <<>>, <<>>, <<>>, <<>>,
         << "M", "o" >>, <<>>, << "M", "o", "m" >>) >>

Restrict(rec, header) == [ col \in header |-> rec[col] ]

\* Sequences of distinct pool rows, at most n long.
PoolOrders(n) ==
  { o \in UNION { [1..k -> 1..Len(RowPool)] : k \in 0..n } :
      \A i, j \in DOMAIN o : i # j => o[i] # o[j] }

\* The sample header, the sample header with a 'FASET Total Count' column, the
\* required columns alone, and the sample header less one required column.
Headers ==
  { SampleHeader, AllColumns, RequiredSet } \cup { SampleHeader \ { col } : col \in RequiredSet }

CsvFiles(n) ==
  { [ header |-> h, rows |-> [i \in DOMAIN o |-> Restrict(RowPool[o[i]], h)] ] :
      h \in Headers, o \in PoolOrders(n) }

DEFAULT_CONFIG ==
  [ per_page_qr |-> 8, columns_qr |-> 2, per_page_name |-> 6, columns_name |-> 2 ]

\* DEFAULT_CONFIG and two configurations a config file can set: two labels per
\* page, and a page capacity the column count does not divide.
Configs ==
  { DEFAULT_CONFIG,
    [ per_page_qr |-> 2, columns_qr |-> 2, per_page_name |-> 2, columns_name |-> 2 ],
    [ per_page_qr |-> 3, columns_qr |-> 2, per_page_name |-> 3, columns_name |-> 2 ] }

PerPage(op, config) == IF op = "qr" THEN config.per_page_qr ELSE config.per_page_name
Columns(op, config) == IF op = "qr" THEN config.columns_qr ELSE config.columns_name

\* ------------------------------------------------------------------- state
VARIABLES
  tk,          \* _tk_available
  csv,         \* the input file: its header and its data rows
  cfg,         \* config of main
  template,    \* the badge-type selection, "" before the dialog
  pc,          \* position of main: dialog, input, load, save_path, run, returned, exited
  exit_code,   \* process status once pc is returned or exited, -1 before
  loads,       \* calls of load_records that read the file
  queue,       \* badge operations main still has to call, the running one first
  opc,         \* position of the running operation: load, render, save, convert, open
  records,     \* its sorted (filtered) list, as positions in csv.rows
  idx,         \* 1-based index of the next record to render
  doc,         \* its in-memory document
  temp_files,  \* its downloaded QR images
  saved,       \* documents on disk, in the order they were saved
  events,      \* what the run did, in order: << operation, step >>
  call,        \* input of the sort and paginator specifications
  result       \* their output

vars ==
  << tk, csv, cfg, template, pc, exit_code, loads, queue, opc, records, idx, doc,
     temp_files, saved, events, call, result >>

Ops == { "qr", "student", "guest1", "guest2" }

NoDoc == [ op |-> "", tables |-> 0, cells |-> <<>>, footer |-> <<>> ]

Init ==
  /\ tk \in BOOLEAN
  /\ csv \in CsvFiles(MaxRows)
  /\ cfg \in Configs
  /\ template = ""
  /\ pc = "dialog"
  /\ exit_code = -1
  /\ loads = 0
  /\ queue = <<>>
  /\ opc = ""
  /\ records = <<>>
  /\ idx = 0
  /\ doc = NoDoc
  /\ temp_files = <<>>
  /\ saved = <<>>
  /\ events = <<>>
  /\ call = <<>>
  /\ result = <<>>

opvars == << queue, opc, records, idx, doc, temp_files, saved >>

\* SystemExit caught by the handler of main, which leaves with status 1.
ExitCaughtByHandler(code, who) ==
  /\ pc' = "exited"
  /\ exit_code' = 1
  /\ events' = events \o << << who, "sys.exit" >>, << "main", "exception" >> >>

\* sys.exit(code): SystemExit is no Exception, the handler of main lets it pass.
Exit(code, who) ==
  /\ pc' = "exited"
  /\ exit_code' = code
  /\ events' = Append(events, << who, "sys.exit" >>)

\* The handler of main leaving with status 0.
UnhandledExitsZero(who, log) ==
  /\ pc' = "exited"
  /\ exit_code' = 0
  /\ events' = log \o << << who, "exception" >> >>

\* An exception reaches `except Exception` of main: logged, shown, sys.exit(1).
Unhandled(who, log) ==
  /\ pc' = "exited"
  /\ exit_code' = 1
  /\ events' = log \o << << who, "exception" >> >>

\* main: the badge-type dialog; without tkinter the template is 'qr'.
SelectTemplate ==
  /\ pc = "dialog"
  /\ IF tk
     THEN \E choice \in { "", "qr", "student", "guest1", "guest2", "all" } :
            IF choice = ""
            THEN Exit(0, "main") /\ UNCHANGED template
            ELSE template' = choice /\ pc' = "input" /\ UNCHANGED << exit_code, events >>
     ELSE template' = "qr" /\ pc' = "input" /\ UNCHANGED << exit_code, events >>
  /\ UNCHANGED << tk, csv, cfg, loads, opvars, call, result >>

\* main: args.input, else pick_input_file.
OpenInput ==
  /\ pc = "input"
  /\ \E given \in BOOLEAN :
       IF given THEN pc' = "load" /\ UNCHANGED << exit_code, events >>
       ELSE IF ~tk THEN Exit(1, "pick_input_file")
       ELSE \E path \in BOOLEAN :
              IF path THEN pc' = "load" /\ UNCHANGED << exit_code, events >>
              ELSE Exit(0, "pick_input_file")
  /\ UNCHANGED << tk, csv, cfg, template, loads, opvars, call, result >>

\* Only the three identity columns are looked for.
MissingOfFirstThree(header) ==
  SelectSeq(SubSeq(REQUIRED_CSV_COLUMNS, 1, 3), LAMBDA col : col \notin header)

\* load_records: the required columns missing from the header.
Missing(header) ==
  SelectSeq(REQUIRED_CSV_COLUMNS, LAMBDA col : col \notin header)

\* The first record read only if there is one.
HasFirstRecordGuarded(rows) == TRUE

\* records[0] raises IndexError on an empty list.
HasFirstRecord(rows) == rows # <<>>

\* main: load_records(file_path), then records[0] for the default file name.
MainLoad ==
  /\ pc = "load"
  /\ \E readable \in BOOLEAN :
       IF ~readable THEN Exit(1, "load_records") /\ UNCHANGED loads
       ELSE /\ loads' = loads + 1
            /\ IF Missing(csv.header) # <<>> THEN Exit(1, "load_records")
               ELSE IF ~HasFirstRecord(csv.rows) THEN Unhandled("main", events)
               ELSE pc' = "save_path" /\ UNCHANGED << exit_code, events >>
  /\ UNCHANGED << tk, csv, cfg, template, opvars, call, result >>

\* The student call placed before the QR call.
OpsOfStudentFirst(t) ==
  IF t = "all" THEN << "student", "qr", "guest1", "guest2" >> ELSE << t >>

OpsOf(t) == IF t = "all" THEN << "qr", "student", "guest1", "guest2" >> ELSE << t >>

\* main: args.output or pick_save_file ('all' always asks), then the calls.
ChooseSavePath ==
  /\ pc = "save_path"
  /\ \E given \in BOOLEAN :
       IF given /\ template # "all"
       THEN /\ pc' = "run" /\ queue' = OpsOf(template) /\ opc' = "load"
            /\ UNCHANGED << exit_code, events >>
       ELSE IF ~tk THEN Exit(1, "pick_save_file") /\ UNCHANGED << queue, opc >>
       ELSE \E save \in BOOLEAN :
              IF save
              THEN /\ pc' = "run" /\ queue' = OpsOf(template) /\ opc' = "load"
                   /\ UNCHANGED << exit_code, events >>
              ELSE Exit(0, "pick_save_file") /\ UNCHANGED << queue, opc >>
  /\ UNCHANGED << tk, csv, cfg, template, loads, records, idx, doc, temp_files, saved,
                  call, result >>

\* The running operation returns to main, which calls the next or returns.
Return(log) ==
  /\ queue' = Tail(queue)
  /\ records' = <<>>
  /\ idx' = 0
  /\ doc' = NoDoc
  /\ temp_files' = <<>>
  /\ IF Tail(queue) = <<>>
     THEN pc' = "returned" /\ exit_code' = 0 /\ opc' = ""
     ELSE opc' = "load" /\ UNCHANGED << pc, exit_code >>
  /\ events' = log

\* A badge operation up to its loop: load_records, (filter,) sort, the empty
\* return of the guest operations, Document().
OpLoad ==
  /\ pc = "run" /\ opc = "load"
  /\ LET op == Head(queue)
         list == RenderList(op, csv.rows)
         log == Append(events, << op, "load" >>)
     IN /\ loads' = loads + 1
        /\ IF op \in { "guest1", "guest2" } /\ Len(list) = 0
           THEN Return(Append(log, << op, "empty" >>))
           ELSE /\ records' = list
                /\ idx' = 1
                /\ doc' = [ NoDoc EXCEPT !.op = op ]
                /\ opc' = IF list = <<>> THEN "save" ELSE "render"
                /\ events' = Append(log, << op, "created" >>)
                /\ UNCHANGED << pc, exit_code, queue, temp_files >>
  /\ UNCHANGED << tk, csv, cfg, template, saved, call, result >>

\* What can happen to the request of a record with a URL: the image is fetched
\* ("ok"), the request fails by timeout, status or network ("fail"), or the
\* bytes fetched are no image, which add_picture refuses ("badimage").
FetchOutcomes(op, rec) ==
  IF op = "qr" /\ Field(rec, "Code") # <<>> THEN { "ok", "fail", "badimage" }
  ELSE { "none" }

\* The try block without its except clause.
download_qr_image_uncaught(outcome) == IF outcome = "fail" THEN "raise" ELSE "path"

\* download_qr_image: the path of the temporary file, or None on any failure.
download_qr_image(outcome) == IF outcome = "fail" THEN "None" ELSE "path"

\* The loop staying on a record whose download failed.
NextIdxAgainOnFailure(i, fetch) == IF fetch = "fail" THEN i ELSE i + 1

\* for idx, rec in enumerate(records, start=1): the index after this iteration.
NextIdx(i, fetch) == i + 1

\* One iteration of the loop of a badge operation.
OpRender ==
  /\ pc = "run" /\ opc = "render"
  /\ LET op == Head(queue)
         rec == csv.rows[records[idx]]
         per_page == PerPage(op, cfg)
         cols == Columns(op, cfg)
         tables == IF StartsNewTable(idx, per_page) THEN doc.tables + 1 ELSE doc.tables
         at == CellOf(idx, per_page, cols)
         Cell(fetch) == [ row |-> records[idx], idx |-> idx, table |-> tables,
                          r |-> at.r, c |-> at.c, fetch |-> fetch,
                          paras |-> CellParas(op, rec, fetch) ]
         Continue(fetch) ==
           /\ idx' = NextIdx(idx, fetch)
           /\ opc' = IF NextIdx(idx, fetch) > Len(records) THEN "save" ELSE "render"
           /\ UNCHANGED << pc, exit_code >>
     IN IF ~Placed(op, idx, per_page, cols)
        THEN /\ doc' = [ doc EXCEPT !.tables = tables ]
             /\ Unhandled(op, events)
             /\ UNCHANGED << opc, idx, temp_files >>
        ELSE \E fetch \in FetchOutcomes(op, rec) :
               LET img_path == IF fetch = "none" THEN "None" ELSE download_qr_image(fetch)
                   log == IF fetch = "fail"
                          THEN Append(events, << op, "download failed" >>) ELSE events
               IN IF img_path = "raise"
                  THEN /\ doc' = [ doc EXCEPT !.tables = tables ]
                       /\ Unhandled(op, log)
                       /\ UNCHANGED << opc, idx, temp_files >>
                  ELSE IF img_path = "path"
                  THEN /\ temp_files' = Append(temp_files, [ idx |-> idx, state |-> "file" ])
                       /\ IF fetch = "badimage"
                          THEN /\ doc' = [ doc EXCEPT !.tables = tables ]
                               /\ Unhandled(op, log)
                               /\ UNCHANGED << opc, idx >>
                          ELSE /\ doc' = [ doc EXCEPT !.tables = tables,
                                                      !.cells = Append(@, Cell(fetch)) ]
                               /\ events' = log
                               /\ Continue(fetch)
                  ELSE /\ doc' = [ doc EXCEPT !.tables = tables,
                                              !.cells = Append(@, Cell(fetch)) ]
                       /\ events' = log
                       /\ Continue(fetch)
                       /\ UNCHANGED temp_files
  /\ UNCHANGED << tk, csv, cfg, template, loads, queue, records, saved, call, result >>

\* The line counting one record too many.
TotalLineOffByOne(total) == Para(<< "Total Count: ", total + 1 >>, TRUE)

\* f"Total Count: {total}"
TotalLine(total) == Para(<< "Total Count: ", total >>, TRUE)

\* After the loop: the total line (QR only), doc.save, the temporary files.
OpSave ==
  /\ pc = "run" /\ opc = "save"
  /\ LET op == Head(queue)
         final == IF op = "qr"
                  THEN [ doc EXCEPT !.footer = << TotalLine(Len(records)) >> ]
                  ELSE doc
     IN /\ doc' = final
        /\ \E written \in BOOLEAN :
             IF ~written
             THEN Unhandled(op, events) /\ UNCHANGED << opc, temp_files, saved >>
             ELSE /\ saved' = Append(saved, final)
                  /\ \E kept \in SUBSET DOMAIN temp_files :
                       temp_files' =
                         [ i \in DOMAIN temp_files |->
                             [ temp_files[i] EXCEPT
                                 !.state = IF i \in kept THEN "unlink failed" ELSE "deleted" ] ]
                  /\ events' = events \o << << op, "saved" >> >>
                               \o [ i \in DOMAIN temp_files |-> << op, "unlink" >> ]
                  /\ opc' = "convert"
                  /\ UNCHANGED << pc, exit_code >>
  /\ UNCHANGED << tk, csv, cfg, template, loads, queue, records, idx, call, result >>

\* What can happen to the conversion: the converter writes the PDF ("ok"), or
\* the import, the converter or the libreoffice process fails ("fail").
ConvertOutcomes == { "ok", "fail" }

\* The try block without its except clauses.
convert_to_pdf_uncaught(outcome) == IF outcome = "fail" THEN "raise" ELSE "path"

\* convert_to_pdf: the PDF path, or None on any failure.
convert_to_pdf(outcome) == IF outcome = "fail" THEN "None" ELSE "path"

\* pdf_path = convert_to_pdf(save_path, outdir)
OpConvert ==
  /\ pc = "run" /\ opc = "convert"
  /\ \E outcome \in ConvertOutcomes :
       LET op == Head(queue)
           pdf_path == convert_to_pdf(outcome)
           log == Append(events, << op, IF outcome = "fail" THEN "convert failed"
                                                            ELSE "converted" >>)
       IN IF pdf_path = "raise"
          THEN Unhandled(op, log) /\ UNCHANGED opc
          ELSE /\ events' = log
               /\ opc' = "open"
               /\ UNCHANGED << pc, exit_code >>
  /\ UNCHANGED << tk, csv, cfg, template, loads, queue, records, idx, doc,
                  temp_files, saved, call, result >>

\* The PDF opened without the test of pdf_path.
AfterOpenAlwaysPdf(pdf_path) == "opened pdf"

\* if pdf_path: open_file(pdf_path, ...) else: the warning.
AfterOpen(pdf_path) == IF pdf_path THEN "opened pdf" ELSE "warned"

\* open_file(save_path); open_file(pdf_path) or the warning; return.
OpOpen ==
  /\ pc = "run" /\ opc = "open"
  /\ LET op == Head(queue)
         pdf_path == events[Len(events)] = << op, "converted" >>
     IN Return(events \o << << op, "opened docx" >>,
                            << op, AfterOpen(pdf_path) >> >>)
  /\ UNCHANGED << tk, csv, cfg, template, loads, saved, call, result >>

Next ==
  \/ SelectTemplate
  \/ OpenInput
  \/ MainLoad
  \/ ChooseSavePath
  \/ OpLoad
  \/ OpRender
  \/ OpSave
  \/ OpConvert
  \/ OpOpen

Spec == Init /\ [][Next]_vars

\* ------------------------------------------- two runs on reordered input
\* No process is running: the variables of main at rest.
AtRest ==
  /\ tk = FALSE
  /\ csv = [ header |-> AllColumns, rows |-> <<>> ]
  /\ cfg = DEFAULT_CONFIG
  /\ template = ""
  /\ pc = ""
  /\ exit_code = -1
  /\ loads = 0
  /\ queue = <<>>
  /\ opc = ""
  /\ records = <<>>
  /\ idx = 0
  /\ doc = NoDoc
  /\ temp_files = <<>>
  /\ saved = <<>>
  /\ events = <<>>

mainvars ==
  << tk, csv, cfg, template, pc, exit_code, loads, queue, opc, records, idx, doc,
     temp_files, saved, events >>

PoolRows(o) == [i \in DOMAIN o |-> RowPool[o[i]]]

\* The same rows in two orders, for one badge operation.
SortInit ==
  /\ AtRest
  /\ \E op \in Ops, o1 \in PoolOrders(MaxSortRows) :
       \E o2 \in { o \in PoolOrders(MaxSortRows) :
                     { o[i] : i \in DOMAIN o } = { o1[i] : i \in DOMAIN o1 } } :
         call = [ op |-> op, first |-> PoolRows(o1), second |-> PoolRows(o2) ]
  /\ result = <<>>

\* The records of a run in the order their cells are rendered.
RenderedRows(op, rows) ==
  [ i \in DOMAIN RenderList(op, rows) |-> rows[RenderList(op, rows)[i]] ]

RunFirst ==
  /\ result = <<>>
  /\ result' = << RenderedRows(call.op, call.first) >>
  /\ UNCHANGED << mainvars, call >>

RunSecond ==
  /\ Len(result) = 1
  /\ result' = Append(result, RenderedRows(call.op, call.second))
  /\ UNCHANGED << mainvars, call >>

SortNext == RunFirst \/ RunSecond

SortSpec == SortInit /\ [][SortNext]_vars

\* ------------------------------------------------------ the paginator alone
PageSizes == { 1, 2, 3, 4, 6, 8 }
ColumnCounts == { 1, 2, 3 }

\* A badge type, a layout and a record count; result is what the loop has
\* done: the tables added, the cell of each iteration and whether the
\* iteration got it (if not, IndexError ends the loop).
PagInit ==
  /\ AtRest
  /\ call \in [ op : Ops, per_page : PageSizes, cols : ColumnCounts, total : 0..MaxIdx ]
  /\ result = [ tables |-> 0, cells |-> <<>>, raised |-> FALSE ]

\* The paginator of one loop iteration: add_table when the record is the first
\* of a page, then table.rows[r].cells[c].
Paginate ==
  /\ ~result.raised
  /\ Len(result.cells) < call.total
  /\ LET i == Len(result.cells) + 1
         tables == IF StartsNewTable(i, call.per_page)
                   THEN result.tables + 1 ELSE result.tables
         at == CellOf(i, call.per_page, call.cols)
         placed == Placed(call.op, i, call.per_page, call.cols)
     IN result' =
          [ tables |-> tables,
            cells |-> Append(result.cells,
                        [ idx |-> i, table |-> tables, r |-> at.r, c |-> at.c,
                          placed |-> placed ]),
            raised |-> ~placed ]
  /\ UNCHANGED << mainvars, call >>

PagNext == Paginate

PagSpec == PagInit /\ [][PagNext]_vars

\* ================================================================== claims
\* ---------------------------------------------------------------- C1, C2
\* Documents whose cells are all rendered: those saved, and the one of the
\* running operation once its loop has ended.
FinishedDocs ==
  { saved[k] : k \in DOMAIN saved }
  \cup (IF pc = "run" /\ opc \in { "save", "convert", "open" } THEN { doc } ELSE {})

\* Documents with at least one cell, finished or not.
StartedDocs == { saved[k] : k \in DOMAIN saved } \cup { doc }

Happened(op, step) == \E k \in DOMAIN events : events[k] = << op, step >>

\* The guest-count field parses to a number >= k (k >= 1; what does not parse counts 0).
ParsesAtLeast(rec, k) ==
  LET lit == IntLiteral(rec["FASET Total Guest Count"])
  IN lit.ok /\ lit.val >= k

\* The CSV rows a badge type is to render, as positions in the CSV.
Wanted(op) ==
  CASE op = "guest1" -> { i \in DOMAIN csv.rows : ParsesAtLeast(csv.rows[i], 1) }
    [] op = "guest2" -> { i \in DOMAIN csv.rows : ParsesAtLeast(csv.rows[i], 2) }
    [] OTHER -> DOMAIN csv.rows

CellRows(d) == { d.cells[i].row : i \in DOMAIN d.cells }

\* C1: once the loop of a badge operation has ended, its document holds one cell
\* per input row (QR, student) or per row whose guest count parses to >= 1
\* (guest 1) / >= 2 (guest 2): as many cells as such rows, every such row among
\* them, none twice; a guest operation returns empty-handed only if no row
\* qualifies.
C1_CellsEqualRows ==
  /\ \A d \in FinishedDocs :
       /\ Len(d.cells) = Cardinality(Wanted(d.op))
       /\ CellRows(d) = Wanted(d.op)
  /\ \A op \in { "guest1", "guest2" } : Happened(op, "empty") => Wanted(op) = {}

\* An 'all' run on a CSV where some rows have one guest, fewer have two and one
\* has a guest count that is no number: four documents of decreasing size.
C1_Witness ==
  /\ Len(saved) = 4
  /\ Len(saved[1].cells) = Len(csv.rows)
  /\ Len(saved[2].cells) = Len(csv.rows)
  /\ 0 < Len(saved[4].cells)
  /\ Len(saved[4].cells) < Len(saved[3].cells)
  /\ Len(saved[3].cells) < Len(saved[1].cells)
  /\ \E i \in DOMAIN csv.rows : ~IntLiteral(csv.rows[i]["FASET Total Guest Count"]).ok

\* (Last.lower(), Preferred.lower()) of a CSV row.
LowKey(i) == << LowerText(csv.rows[i]["Last"]), LowerText(csv.rows[i]["Preferred"]) >>

Injective(f) == \A i, j \in DOMAIN f : i # j => f[i] # f[j]

\* C2: the list a badge operation renders is a permutation of its (filtered)
\* records; cells appear in ascending order of the lowercased (Last, Preferred)
\* key, and cells whose keys are equal appear in CSV order.
C2_SortedStable ==
  /\ (pc = "run" /\ opc \in { "render", "save", "convert", "open" }) =>
       /\ Injective(records)
       /\ { records[i] : i \in DOMAIN records } = Wanted(Head(queue))
       /\ \A i \in DOMAIN doc.cells : doc.cells[i].row = records[i]
  /\ \A d \in StartedDocs : \A i, j \in DOMAIN d.cells :
       i < j =>
         /\ ~KeyLess(LowKey(d.cells[j].row), LowKey(d.cells[i].row))
         /\ LowKey(d.cells[i].row) = LowKey(d.cells[j].row) => d.cells[i].row < d.cells[j].row

\* A saved document in which the sort moved a row ahead of an earlier CSV row
\* and kept two rows that differ only in case in their CSV order.
C2_Witness ==
  \E k \in DOMAIN saved : \E i, j, m \in DOMAIN saved[k].cells :
    LET cells == saved[k].cells
    IN /\ i < j /\ cells[i].row > cells[j].row
       /\ m > 1
       /\ LowKey(cells[m - 1].row) = LowKey(cells[m].row)
       /\ csv.rows[cells[m - 1].row]["Last"] # csv.rows[cells[m].row]["Last"]

\* ---------------------------------------------------------------- C3
\* The (Last, Preferred) pairs of the rows of a run, as written in the CSV.
RawPairsDistinct(rows) ==
  \A i, j \in DOMAIN rows :
    i # j => << rows[i]["Last"], rows[i]["Preferred"] >>
             # << rows[j]["Last"], rows[j]["Preferred"] >>

LowPairsDistinct(rows) ==
  \A i, j \in DOMAIN rows :
    i # j => << LowerText(rows[i]["Last"]), LowerText(rows[i]["Preferred"]) >>
             # << LowerText(rows[j]["Last"]), LowerText(rows[j]["Preferred"]) >>

\* C3 as stated: two runs of one badge type on the same rows in two orders
\* render the records in the same order whenever the (Last, Preferred) pairs
\* are pairwise distinct.
C3_AsStated ==
  (Len(result) = 2 /\ RawPairsDistinct(call.first)) => result[1] = result[2]

\* C3, amended: two runs of one badge type on the same rows in two orders render
\* the records in the same order whenever the lowercased (Last, Preferred) pairs
\* are pairwise distinct.
C3_SameOrderIfLowPairsDistinct ==
  (Len(result) = 2 /\ LowPairsDistinct(call.first)) => result[1] = result[2]

\* Both runs done on rows given in two different orders, pairs distinct
\* regardless of case, at least two records rendered.
C3_Witness ==
  /\ Len(result) = 2
  /\ call.first # call.second
  /\ LowPairsDistinct(call.first)
  /\ Len(result[1]) >= 2
  /\ result[1] = result[2]

\* ---------------------------------------------------------------- C4
\* C4: the record with 1-based index idx opens a new table exactly when
\* per_page divides idx - 1, and the cell it addresses is row r, column c with
\* r * columns + c = (idx - 1) mod per_page and c < columns (raster order); with
\* 8 per page in 2 columns, index 8 is at row 3, column 1 and index 9 opens the
\* second table at row 0, column 0.
C4_RasterOrder ==
  /\ \A i \in DOMAIN result.cells :
       LET cell == result.cells[i]
           before == IF i = 1 THEN 0 ELSE result.cells[i - 1].table
           k == (i - 1) % call.per_page
       IN /\ cell.idx = i
          /\ (cell.table = before + 1) <=> (\E q \in 0..i : q * call.per_page = i - 1)
          /\ cell.table \in { before, before + 1 }
          /\ cell.r >= 0 /\ cell.c >= 0 /\ cell.c < call.cols
          /\ cell.r * call.cols + cell.c = k
  /\ result.tables = IF result.cells = <<>> THEN 0
                     ELSE result.cells[Len(result.cells)].table
  /\ (call.per_page = 8 /\ call.cols = 2) =>
       /\ Len(result.cells) >= 8 =>
            /\ result.cells[8].table = 1 /\ result.cells[8].placed
            /\ result.cells[8].r = 3 /\ result.cells[8].c = 1
       /\ Len(result.cells) >= 9 =>
            /\ result.cells[9].table = 2 /\ result.cells[9].placed
            /\ result.cells[9].r = 0 /\ result.cells[9].c = 0

\* Nine records laid out 8 per page in 2 columns.
C4_Witness ==
  /\ call.per_page = 8 /\ call.cols = 2
  /\ Len(result.cells) = 9
  /\ result.tables = 2
  /\ ~result.raised

\* ---------------------------------------------------------------- C5
EndsWith(text, suffix) ==
  /\ Len(text) >= Len(suffix)
  /\ SubSeq(text, Len(text) - Len(suffix) + 1, Len(text)) = suffix

\* The suffix the guest-count field of a row asks for: "- 1" if blank, else "- v".
GuestCountSuffix(rec) ==
  LET v == Strip(rec["FASET Total Guest Count"])
  IN << "-", " " >> \o (IF v = <<>> THEN << "1" >> ELSE v)

\* C5: the name line of every QR cell ends with the suffix of the record's
\* guest-count field: "- 1" for a blank field, "- 3" for "3", "- v" for v.
C5_GuestCountSuffix ==
  \A d \in StartedDocs : d.op = "qr" =>
    \A i \in DOMAIN d.cells :
      EndsWith(d.cells[i].paras[1].text, GuestCountSuffix(csv.rows[d.cells[i].row]))

\* ---------------------------------------------------------------- C6
HeaderIncomplete == \E col \in RequiredSet : col \notin csv.header

\* No badge operation has begun: nothing loaded by one, no document, no file.
NothingProduced ==
  /\ saved = <<>> /\ doc = NoDoc /\ temp_files = <<>> /\ records = <<>>
  /\ \A k \in DOMAIN events : events[k][1] \notin Ops

\* C6: with a required column missing from the header no badge operation ever
\* begins, whatever the badge-type selection: main never gets past its load,
\* and once the file has been read the process has exited with status 1.
C6_MissingColumnFailsFirst ==
  HeaderIncomplete =>
    /\ NothingProduced
    /\ pc \notin { "save_path", "run", "returned" }
    /\ loads <= 1
    /\ loads = 1 => pc = "exited" /\ exit_code = 1
    /\ (pc = "exited" /\ exit_code = 0) => loads = 0

\* 'all' chosen on a CSV with rows and one required column missing: exit 1.
C6_Witness ==
  /\ HeaderIncomplete
  /\ csv.rows # <<>>
  /\ template = "all"
  /\ loads = 1
  /\ pc = "exited" /\ exit_code = 1

\* ---------------------------------------------------------------- C7
ErrorLine == Para(<< "QR download error" >>, FALSE)

\* The document of the QR operation of this run, in memory or saved.
QRDoc ==
  IF doc.op = "qr" THEN doc
  ELSE IF \E k \in DOMAIN saved : saved[k].op = "qr"
       THEN saved[CHOOSE k \in DOMAIN saved : saved[k].op = "qr"]
       ELSE NoDoc

FailedCells(d) == { i \in DOMAIN d.cells : d.cells[i].fetch = "fail" }

\* C7: in a QR run every failed download leaves a cell for its record, that
\* cell ends with the line "QR download error" and holds no picture, and the
\* loop goes on: a document whose loop has ended holds every record, those
\* with failed downloads included.
C7_FetchFailureDegrades ==
  /\ Cardinality({ k \in DOMAIN events : events[k] = << "qr", "download failed" >> })
       = Cardinality(FailedCells(QRDoc))
  /\ \A i \in FailedCells(QRDoc) :
       LET cell == QRDoc.cells[i]
       IN /\ Strip(Get(csv.rows[cell.row], "Code", <<>>)) # <<>>
          /\ cell.paras[Len(cell.paras)] = ErrorLine
          /\ \A n \in DOMAIN cell.paras : ~cell.paras[n].picture
  /\ \A d \in FinishedDocs : d.op = "qr" => CellRows(d) = DOMAIN csv.rows
  /\ (pc = "run" /\ opc = "render") => idx = Len(doc.cells) + 1

\* A saved QR document in which a cell with a failed download is followed by a
\* cell with a picture.
C7_Witness ==
  \E k \in DOMAIN saved : \E i \in DOMAIN saved[k].cells :
    /\ saved[k].op = "qr"
    /\ saved[k].cells[i].fetch = "fail"
    /\ i < Len(saved[k].cells)
    /\ saved[k].cells[i + 1].fetch = "ok"

\* ---------------------------------------------------------------- C8
AllOrder == << "qr", "student", "guest1", "guest2" >>

\* Position of a badge operation in AllOrder; 0 for what main does itself.
Rank(who) ==
  CASE who = "qr" -> 1 [] who = "student" -> 2 [] who = "guest1" -> 3
    [] who = "guest2" -> 4 [] OTHER -> 0

SavedOps == [ k \in DOMAIN saved |-> saved[k].op ]

\* C8 as stated: an 'all' run that returns has produced the four documents
\* QR, Student, Guest 1, Guest 2, in that order.
C8_AsStated ==
  (template = "all" /\ pc = "returned") => SavedOps = AllOrder

\* The documents an 'all' run owes: QR and Student, and a guest document for
\* each guest filter that keeps a row.
OwedDocs ==
  << "qr", "student" >>
  \o (IF Wanted("guest1") # {} THEN << "guest1" >> ELSE <<>>)
  \o (IF Wanted("guest2") # {} THEN << "guest2" >> ELSE <<>>)

\* C8, amended: an 'all' run calls the four badge operations one after another
\* in the order QR, Student, Guest 1, Guest 2, each loading the input itself
\* and rendering its own filtered, sorted rows; a run that returns has saved
\* the QR and Student documents and the Guest 1 / Guest 2 document exactly
\* when its filter keeps a row (two to four documents, in that order).
C8_AllRunsEachInOrder ==
  template = "all" =>
    /\ \A k \in DOMAIN events :
         k > 1 =>
           /\ Rank(events[k - 1][1]) <= Rank(events[k][1])
           /\ Rank(events[k - 1][1]) < Rank(events[k][1]) =>
                /\ events[k] = << AllOrder[Rank(events[k - 1][1]) + 1], "load" >>
                /\ events[k - 1][2] \in { "empty", "opened pdf", "warned" }
    /\ (events # <<>> /\ Rank(events[1][1]) > 0) => events[1] = << "qr", "load" >>
    /\ \A op \in Ops :
         Cardinality({ k \in DOMAIN events : events[k] = << op, "load" >> }) <= 1
    /\ \A k \in DOMAIN saved :
         /\ Happened(saved[k].op, "load")
         /\ CellRows(saved[k]) = Wanted(saved[k].op)
    /\ pc = "returned" =>
         /\ SavedOps = OwedDocs
         /\ \A op \in Ops : Happened(op, "load")
         /\ loads = 1 + Len(AllOrder)

\* An 'all' run that returned with four documents.
C8_Witness ==
  /\ template = "all" /\ pc = "returned" /\ exit_code = 0
  /\ SavedOps = AllOrder

\* ---------------------------------------------------------------- C9
Present(rec, cols) == \E col \in cols : Strip(Get(rec, col, <<>>)) # <<>>

\* The fields behind each content line of a name badge.
LineFields(op) ==
  CASE op = "student" ->
         { { "Preferred", "Last" }, { "Major" }, { "Home City", "Home State/Region" },
           { "Group Number", "Pronouns" }, { "FASET Session Date" } }
    [] op = "guest1" ->
         { { "Guest 1 Preferred Name", "Guest 1 Last Name" }, { "Preferred", "Last" },
           { "Guest 1 Affiliations" }, { "Home City", "Home State/Region" },
           { "FASET Session Date" } }
    [] OTHER ->
         { { "Guest 2 Preferred Name", "Guest 2 Last Name" }, { "Preferred", "Last" },
           { "Guest 2 Affiliations" }, { "Home City", "Home State/Region" },
           { "FASET Session Date" } }

\* C9: a student, guest-1 or guest-2 cell holds its three leading blank
\* paragraphs and then one paragraph per content line whose field(s) are not
\* empty after trimming: a line whose fields are all empty adds no paragraph.
C9_EmptyFieldNoParagraph ==
  \A d \in StartedDocs : d.op \in { "student", "guest1", "guest2" } =>
    \A i \in DOMAIN d.cells :
      LET cell == d.cells[i]
          rec == csv.rows[cell.row]
      IN /\ Len(cell.paras) =
              3 + Cardinality({ f \in LineFields(d.op) : Present(rec, f) })
         /\ \A n \in 1..3 : cell.paras[n] = BlankPara

\* A saved student document with a cell whose Major is whitespace only, holding
\* the name line alone, and a saved guest-1 document with a cell that lacks
\* the affiliation and date lines.
C9_Witness ==
  /\ \E k \in DOMAIN saved : \E i \in DOMAIN saved[k].cells :
       /\ saved[k].op = "student"
       /\ Get(csv.rows[saved[k].cells[i].row], "Major", <<>>) # <<>>
       /\ Len(saved[k].cells[i].paras) = 4
  /\ \E k \in DOMAIN saved : \E i \in DOMAIN saved[k].cells :
       /\ saved[k].op = "guest1"
       /\ ~Present(csv.rows[saved[k].cells[i].row], { "Guest 1 Affiliations" })
       /\ Len(saved[k].cells[i].paras) = 6

\* --------------------------------------------------------------- C10
EmitterSteps ==
  { "created", "saved", "unlink", "converted", "convert failed", "opened docx",
    "opened pdf", "warned", "exception", "download failed" }

\* C10: a guest operation whose filter keeps no row returns right after its
\* load: it creates, saves, converts and opens nothing and raises nothing, the
\* run goes on, and in an 'all' run Guest 2 is still called after an empty
\* Guest 1.
C10_EmptyFilterReturns ==
  \A op \in { "guest1", "guest2" } :
    /\ (Happened(op, "load") /\ Wanted(op) = {}) => Happened(op, "empty")
    /\ Happened(op, "empty") =>
         /\ \A step \in EmitterSteps : ~Happened(op, step)
         /\ \A k \in DOMAIN saved : saved[k].op # op
         /\ doc.op # op
    /\ (events # <<>> /\ events[Len(events)] = << op, "empty" >>) =>
         /\ pc \in { "run", "returned" }
         /\ pc = "run" => opc = "load" /\ queue # <<>>
         /\ pc = "returned" => exit_code = 0
    /\ (template = "all" /\ pc \in { "returned", "exited" } /\ Happened("guest1", "empty"))
         => Happened("guest2", "load")

\* An 'all' run that returned after both guest operations came back empty.
C10_Witness ==
  /\ template = "all" /\ pc = "returned" /\ exit_code = 0
  /\ Happened("guest1", "empty") /\ Happened("guest2", "empty")
  /\ SavedOps = << "qr", "student" >>

\* --------------------------------------------------------------- C11
\* The badge operation main calls after `op` in an 'all' run ("" after the last).
NextOp(op) == IF Rank(op) \in 1..3 THEN AllOrder[Rank(op) + 1] ELSE ""

\* C11: after a failed PDF conversion of a badge operation its document is
\* among the saved ones, the next steps are the opening of the document and the
\* warning, the PDF is never opened, the operation raises nothing and returns
\* (the run is then over with status 0, or main goes on to the next call), and
\* in an 'all' run the next badge type is loaded next.
C11_ConvertFailureNotFatal ==
  \A i \in DOMAIN events :
    events[i][2] = "convert failed" =>
      LET op == events[i][1]
      IN /\ \E k \in DOMAIN saved : saved[k].op = op
         /\ ~Happened(op, "opened pdf")
         /\ ~Happened(op, "exception")
         /\ i = Len(events) => pc = "run" /\ opc = "open" /\ Head(queue) = op
         /\ i < Len(events) =>
              /\ Len(events) >= i + 2
              /\ events[i + 1] = << op, "opened docx" >>
              /\ events[i + 2] = << op, "warned" >>
         /\ i + 2 = Len(events) =>
              IF template = "all" /\ NextOp(op) # ""
              THEN pc = "run" /\ opc = "load" /\ Head(queue) = NextOp(op)
              ELSE pc = "returned" /\ exit_code = 0
         /\ i + 2 < Len(events) =>
              template = "all" /\ events[i + 3] = << NextOp(op), "load" >>

\* An 'all' run that returned with four documents saved although the
\* conversion of the first one failed.
C11_Witness ==
  /\ template = "all" /\ pc = "returned" /\ exit_code = 0
  /\ Happened("qr", "convert failed") /\ Happened("qr", "warned")
  /\ SavedOps = AllOrder

\* --------------------------------------------------------------- C12
\* What a badge operation does after doc.save has returned.
AfterSaveSteps ==
  { "saved", "unlink", "converted", "convert failed", "opened docx", "opened pdf",
    "warned" }

\* C12: an exception raised during a run is the last thing that happens: the
\* process has exited with status 1, the operation that raised has saved,
\* converted and opened nothing, and no badge type was started after it; a
\* failed doc.save in particular ends so, its document not among the saved.
C12_UnhandledExitsWithFailure ==
  /\ \A i \in DOMAIN events :
       events[i][2] = "exception" =>
         /\ i = Len(events)
         /\ pc = "exited" /\ exit_code = 1
         /\ \A step \in AfterSaveSteps : ~Happened(events[i][1], step)
         /\ \A k \in DOMAIN saved : saved[k].op # events[i][1]
         /\ Rank(events[i][1]) > 0 =>
              /\ queue # <<>> /\ Head(queue) = events[i][1]
              /\ \A op \in Ops : Rank(op) > Rank(events[i][1]) => ~Happened(op, "load")
  /\ (pc = "exited" /\ opc = "save") =>
       /\ events[Len(events)] = << Head(queue), "exception" >>
       /\ exit_code = 1

\* An 'all' run whose student document could not be written: the QR document
\* is the only one saved and the guest operations never started.
C12_Witness ==
  /\ template = "all" /\ pc = "exited" /\ exit_code = 1 /\ opc = "save"
  /\ Head(queue) = "student"
  /\ events[Len(events)] = << "student", "exception" >>
  /\ SavedOps = << "qr" >>

\* --------------------------------------------------------------- C13
\* The paragraph is a running-total line.
IsTotalLine(para) == para.text # <<>> /\ para.text[1] = "Total Count: "

\* Number of running-total lines after the cells of a document, plus the
\* number of its cells that hold one.
TotalLines(d) ==
  Cardinality({ i \in DOMAIN d.footer : IsTotalLine(d.footer[i]) })
  + Cardinality({ i \in DOMAIN d.cells :
                    \E j \in DOMAIN d.cells[i].paras : IsTotalLine(d.cells[i].paras[j]) })

\* C13: a saved QR document ends, after its cells, with the one line
\* "Total Count: N", N the number of its cells, and has no other such line; a
\* saved student or guest document has none; while cells are still being
\* rendered no document has one.
C13_OneTotalLineInQR ==
  /\ \A k \in DOMAIN saved :
       IF saved[k].op = "qr"
       THEN /\ saved[k].footer = << Para(<< "Total Count: ", Len(saved[k].cells) >>, TRUE) >>
            /\ TotalLines(saved[k]) = 1
       ELSE TotalLines(saved[k]) = 0
  /\ (pc = "run" /\ opc = "render") => TotalLines(doc) = 0

\* An 'all' run with a QR document of two cells and the line "Total Count: 2"
\* and a student document without one.
C13_Witness ==
  /\ Len(saved) >= 2
  /\ saved[1].op = "qr" /\ Len(saved[1].cells) = 2
  /\ saved[1].footer[1].text = << "Total Count: ", 2 >>
  /\ saved[2].op = "student" /\ saved[2].footer = <<>>

\* --------------------------------------------------------------- C14
\* The fields behind each content line of a QR badge: the name line shows the
\* names and the count, under either name of the count column.
QRLineFields ==
  { { "Preferred", "Last", "FASET Total Guest Count", "FASET Total Count" },
    { "FASET Shirt Size" }, { "Code" } }

\* Place of a paragraph of a QR cell in the order name, shirt size, image.
QRLineKind(para) ==
  IF para.bold THEN 1
  ELSE IF para.text # <<>> /\ para.text[1] = "Shirt Size: " THEN 2
  ELSE 3

\* C14: every cell holds its content lines in the order of its badge type and
\* one paragraph per content line whose field(s) are not empty after trimming,
\* the name line of a QR cell included: a QR cell of a record without names
\* and without count has no name line.
C14_LinesInOrderOnlyIfPresent ==
  \A d \in StartedDocs : \A i \in DOMAIN d.cells :
    LET cell == d.cells[i]
        rec == csv.rows[cell.row]
    IN IF d.op = "qr"
       THEN /\ Len(cell.paras) = Cardinality({ f \in QRLineFields : Present(rec, f) })
            /\ \A m, n \in DOMAIN cell.paras :
                 m < n => QRLineKind(cell.paras[m]) < QRLineKind(cell.paras[n])
       ELSE /\ Len(cell.paras) = 3 + Cardinality({ f \in LineFields(d.op) : Present(rec, f) })
            /\ \A n \in DOMAIN cell.paras : cell.paras[n].bold => n = 4

\* --------------------------------------------------------------- C15
\* The QR operation is over: it raised, or it is past its save.
QREnded ==
  /\ queue # <<>> /\ Head(queue) = "qr"
  /\ pc = "exited" \/ (pc = "run" /\ opc \in { "convert", "open" })

\* C15: no delete is attempted on a temporary file before the document is
\* saved, and once the QR operation is over, however it ended, a delete has
\* been attempted on every temporary file a download created; a delete that
\* failed has not ended the run.
C15_TempFilesDeletedWhateverOutcome ==
  /\ \A i \in DOMAIN temp_files :
       temp_files[i].state # "file" => Happened("qr", "saved")
  /\ QREnded => \A i \in DOMAIN temp_files : temp_files[i].state # "file"
  /\ (QREnded /\ Happened("qr", "saved")) => ~Happened("qr", "exception")

\* --------------------------------------------------------------- C16
\* C16: in a run of a single badge type the CSV is read and validated at most
\* once, and exactly once when the run returns: no record set is loaded
\* without being the one rendered.
C16_LoadedOncePerRun ==
  template \in Ops =>
    /\ loads <= 1
    /\ pc = "returned" => loads = 1

\* --------------------------------------------------------------- C17
\* How many times a step of a badge operation has been logged.
Times(op, steps) == Cardinality({ k \in DOMAIN events : events[k][1] = op /\ events[k][2] \in steps })

\* Positions in the QR list, up to the one being rendered, that have a URL.
FetchedSoFar ==
  { j \in 1..idx : j <= Len(records) /\ Field(csv.rows[records[j]], "Code") # <<>> }

\* C17: each badge operation saves at most once and converts at most once, and
\* only what it saved; in the QR operation every record with a URL is fetched
\* at most once: no position has two temporary files, or a temporary file and a
\* failed download, and there are no more failed downloads than cells showing
\* the error line. A failed download has its cell with the error line, a failed
\* conversion is followed by nothing but the opening of the document and the
\* warning, and an exception is the last step, the process exited with 1.
C17_NoStepRetried ==
  /\ \A op \in Ops :
       /\ Times(op, { "saved" }) <= 1
       /\ Times(op, { "saved" }) = Cardinality({ k \in DOMAIN saved : saved[k].op = op })
       /\ Times(op, { "converted", "convert failed" }) <= Times(op, { "saved" })
       /\ Times(op, { "opened docx" }) <= Times(op, { "saved" })
  /\ doc.op = "qr" =>
       /\ \A m, n \in DOMAIN temp_files : m # n => temp_files[m].idx # temp_files[n].idx
       /\ \A m \in DOMAIN temp_files : \A n \in FailedCells(doc) :
            temp_files[m].idx # doc.cells[n].idx
       /\ \A m, n \in DOMAIN doc.cells : m # n => doc.cells[m].idx # doc.cells[n].idx
       /\ Len(temp_files) + Times("qr", { "download failed" }) <= Cardinality(FetchedSoFar)
  /\ Times("qr", { "download failed" }) = Cardinality(FailedCells(QRDoc))
  /\ \A i \in DOMAIN events :
       /\ events[i][2] = "exception" => i = Len(events) /\ pc = "exited" /\ exit_code = 1
       /\ (events[i][2] = "convert failed" /\ i < Len(events)) =>
            events[i + 1][2] = "opened docx"

\* A QR run that returned after one failed and one successful download, a
\* failed delete and a failed conversion: one failed download logged, one
\* temporary file, one save, one conversion.
C17_Witness ==
  /\ pc = "returned" /\ template = "qr"
  /\ Times("qr", { "download failed" }) = 1
  /\ Times("qr", { "unlink" }) = 1
  /\ Times("qr", { "saved" }) = 1
  /\ Times("qr", { "convert failed" }) = 1
  /\ Len(saved) = 1 /\ Len(saved[1].cells) >= 2

\* --------------------------------------------------------------- C18
\* Place of a logged step in the course of a badge operation.
StepRank(step) ==
  CASE step = "load" -> 1
    [] step \in { "empty", "created" } -> 2
    [] step = "download failed" -> 3
    [] step = "saved" -> 4
    [] step = "unlink" -> 5
    [] step \in { "converted", "convert failed" } -> 6
    [] step = "opened docx" -> 7
    [] step \in { "opened pdf", "warned" } -> 8
    [] OTHER -> 9

\* C18: the steps of a badge operation come in the order cells rendered,
\* document saved, conversion, document opened, PDF opened: a document is
\* saved with all its cells; a conversion or an opening has the save of its
\* operation before it, the opening of the document the conversion right
\* before it and the opening of the PDF the opening of the document right
\* before it; the PDF is opened only after a conversion that produced it.
C18_EmitterOrder ==
  /\ \A k \in DOMAIN saved : Len(saved[k].cells) = Cardinality(Wanted(saved[k].op))
  /\ \A i \in DOMAIN events :
       LET op == events[i][1]
           step == events[i][2]
       IN Rank(op) > 0 =>
            /\ (i > 1 /\ events[i - 1][1] = op) =>
                 /\ StepRank(events[i - 1][2]) <= StepRank(step)
                 /\ StepRank(step) \notin { 3, 5 } => StepRank(events[i - 1][2]) < StepRank(step)
            /\ (i > 1 /\ events[i - 1][1] # op) => step = "load"
            /\ StepRank(step) \in 5..8 => Happened(op, "saved")
            /\ step = "saved" => \E k \in DOMAIN saved : saved[k].op = op
            /\ step = "opened docx" => StepRank(events[i - 1][2]) = 6
            /\ step \in { "opened pdf", "warned" } => events[i - 1] = << op, "opened docx" >>
            /\ step = "opened pdf" => events[i - 2] = << op, "converted" >>
            /\ step = "warned" => events[i - 2] = << op, "convert failed" >>

\* A student run that returned after saving, converting and opening both files.
C18_Witness ==
  /\ template = "student" /\ pc = "returned"
  /\ Len(events) = 6
  /\ [ i \in 1..6 |-> events[i][2] ] =
       << "load", "created", "saved", "converted", "opened docx", "opened pdf" >>

\* --------------------------------------------------------------- C19
\* ceil(n / per_page)
PagesNeeded(n, per_page) == (n + per_page - 1) \div per_page

\* C19: with per_page a positive multiple of columns, every record gets a cell
\* of its page's table (row < per_page / columns, column < columns), no two
\* records of a page get the same cell, every page but the last holds per_page
\* records, and once the loop is over ceil(n / per_page) pages were created.
C19_PaginatorInvariants ==
  (call.per_page > 0 /\ call.cols > 0 /\ call.per_page % call.cols = 0) =>
    /\ ~result.raised
    /\ \A i \in DOMAIN result.cells :
         /\ result.cells[i].placed
         /\ result.cells[i].r < call.per_page \div call.cols
         /\ result.cells[i].c < call.cols
    /\ \A i, j \in DOMAIN result.cells :
         (i # j /\ result.cells[i].table = result.cells[j].table) =>
           << result.cells[i].r, result.cells[i].c >> # << result.cells[j].r, result.cells[j].c >>
    /\ \A t \in 1..(result.tables - 1) :
         Cardinality({ i \in DOMAIN result.cells : result.cells[i].table = t }) = call.per_page
    /\ Len(result.cells) = call.total => result.tables = PagesNeeded(call.total, call.per_page)

\* --------------------------------------------------------------- C20
\* The CSV has every required column and no data row.
EmptyCsv == ~HeaderIncomplete /\ csv.rows = <<>>

\* C20: with a CSV of all required columns and no data row, whatever the badge
\* type, no badge operation ever starts and no document is created or saved,
\* and once main has loaded the file the run has ended with status 1 on the
\* exception raised in main.
C20_EmptyCsvFailsBeforeAnyOperation ==
  EmptyCsv =>
    /\ pc \notin { "save_path", "run", "returned" }
    /\ queue = <<>> /\ doc = NoDoc /\ saved = <<>>
    /\ \A op \in Ops : \A i \in DOMAIN events : events[i][1] # op
    /\ loads <= 1
    /\ loads = 1 =>
         /\ pc = "exited" /\ exit_code = 1
         /\ events[Len(events)] = << "main", "exception" >>

\* An 'all' run on such a CSV, ended by the exception in main.
C20_Witness ==
  /\ EmptyCsv /\ template = "all" /\ loads = 1
  /\ pc = "exited" /\ exit_code = 1
  /\ events = << << "main", "exception" >> >>

\* --------------------------------------------------------------- C21
\* Where the user can back out: the badge-type dialog of main and the two
\* file pickers.
Cancellable == { "main", "pick_input_file", "pick_save_file" }

\* With tkinter present the dialog and the pickers call sys.exit only when the
\* user closed or cancelled them.
Cancelled ==
  /\ tk
  /\ \E i \in DOMAIN events : events[i][1] \in Cancellable /\ events[i][2] = "sys.exit"

\* C21: after the user closed the badge-type dialog or cancelled a file picker
\* the process has exited with status 0, that exit was the only step of the
\* run, no exception was handled, and no document was created, saved,
\* converted or opened.
C21_CancelExitsZero ==
  Cancelled =>
    /\ pc = "exited" /\ exit_code = 0
    /\ Len(events) = 1
    /\ \A i \in DOMAIN events : events[i][2] # "exception"
    /\ \A op \in Ops : \A step \in EmitterSteps : ~Happened(op, step)
    /\ doc = NoDoc /\ saved = <<>> /\ queue = <<>> /\ temp_files = <<>>

\* An 'all' run whose save-file picker was cancelled after the CSV was loaded.
C21_Witness ==
  /\ tk /\ template = "all" /\ loads = 1
  /\ pc = "exited" /\ exit_code = 0
  /\ events = << << "pick_save_file", "sys.exit" >> >>

====
